---- MODULE Spec2Model ----
(***************************************************************************)
(* IsingModelClass (src/IsingModel.py): a 2D Ising lattice driven by       *)
(* single-spin-flip Metropolis dynamics, with the energy / magnetization   *)
(* trajectory that simulate and animate record on the instance.            *)
(*                                                                         *)
(* Every public method is one action.  All quantities are integers:        *)
(*   - J, h and the energies are integers (spins are +-1);                 *)
(*   - a magnetization np.sum(spins) / size**2 is the pair <<num, den>>,   *)
(*     <<0, 1>> being the 0.0 of np.zeros and <<0, 0>> the nan of 0 / 0;   *)
(*   - temperature is counted in units in which temperature * kB * ln 2    *)
(*     is the integer `temperature`, so exp(-dE / (temperature * kB)) is   *)
(*     2^(-dE / temperature);                                              *)
(*   - a uniform draw of [0, 1) is u / DrawLevels, u in 0..DrawLevels-1.   *)
(* The methods' computations are operators of the instance's parameters    *)
(* m = [size, temperature, J, h] and the grid S they run on.               *)
(***************************************************************************)
EXTENDS Integers, Sequences, FiniteSets, TLC

VARIABLES
    inst,               \* "none" before construction, "live", or "failed" (__init__ raised)
    size,               \* self.size
    temperature,        \* self.temperature
    J,                  \* self.J
    h,                  \* self.h
    spins,              \* self.spins: spins[i][j], 0 <= i, j < size
    has_energies,       \* hasattr(self, "energies")
    has_magnetizations, \* hasattr(self, "magnetizations")
    energies,           \* self.energies (<<>> while the attribute is absent)
    magnetizations,     \* self.magnetizations (<<>> while the attribute is absent)
    fst_frame,          \* self.fst_frame (FALSE while the attribute is absent)
    frames,             \* self.frames (0 while the attribute is absent)
    recorded,           \* history: the 0-based indices written since the arrays were allocated
    last                \* history: the call that ended last, its argument and its outcome

vars == <<inst, size, temperature, J, h, spins, has_energies, has_magnetizations,
          energies, magnetizations, fst_frame, frames, recorded, last>>

params == <<inst, size, temperature, J, h>>

\* The parameters of the instance, as the methods read them.
self == [size |-> size, temperature |-> temperature, J |-> J, h |-> h]

----------------------------------------------------------------------------
(* Bounds of the model *)

\* Largest lattice side constructed under Spec.
MaxSize == 1

\* Largest lattice side under SpecPhysics.
MaxSide == 3

\* Resolution of a uniform draw.
DrawLevels == 2

\* Within one simulate / animate call the random stream repeats with this period.
RngPeriod == 2

\* Arguments of the constructor under Spec.
SizeArgs == (0 - 1)..MaxSize
TemperatureArgs == {-1, 0, 8}
JArgs == {-1, 1}
hArgs == {0, 1}

\* Parameters of an instance under SpecPhysics.
PhysTemperature == {-1, 0, 2, 8}
PhysJ == {-1, 0, 1}
PhysH == {-1, 0, 1}

\* Arguments of simulate and animate.
SimulateArgs == {-1, 0, 1, 2, 10}
AnimateArgs == {-1, 0, 149, 150, 301}

----------------------------------------------------------------------------
(* Program constants *)

\* self.frames = 150
FRAMES == 150

\* the 10 of `step % (steps // 10)`
PROGRESS_PARTS == 10

----------------------------------------------------------------------------
(* Lattice state *)

spin_values == {-1, 1}

Index(N) == 0..(N - 1)

\* np.random.choice([-1, 1], size=(N, N)): every N x N grid of the two values
random_spins(N) == [Index(N) -> [Index(N) -> spin_values]]

\* np.zeros(n), for n >= 0
zeros(n) == [k \in 1..n |-> 0]

\* np.zeros(n) holding magnetizations
zeros_mag(n) == [k \in 1..n |-> <<0, 1>>]

RECURSIVE spin_sum(_, _, _)
\* np.sum(S) over S's first k cells, numbered row by row
spin_sum(S, N, k) ==
    IF k <= 0 THEN 0
    ELSE S[(k - 1) \div N][(k - 1) % N] + spin_sum(S, N, k - 1)

RECURSIVE bond_sum(_, _, _)
\* np.sum(S * np.roll(S, 1, axis=0) + S * np.roll(S, 1, axis=1)) over S's first k cells
bond_sum(S, N, k) ==
    IF k <= 0 THEN 0
    ELSE LET i == (k - 1) \div N
             j == (k - 1) % N
         IN  S[i][j] * S[(i - 1) % N][j] + S[i][j] * S[i][(j - 1) % N]
             + bond_sum(S, N, k - 1)

----------------------------------------------------------------------------
(* Local physics *)

\* Mutant: the row above taken twice, the row below never.
neighbors_copy_paste(m, S, i, j) ==
    S[(i + 1) % m.size][j] + S[(i + 1) % m.size][j] +
    S[i][(j + 1) % m.size] + S[i][(j - 1) % m.size]

\* The four periodic neighbours of (i, j) in S, added up.
neighbors(m, S, i, j) ==
    S[(i + 1) % m.size][j] + S[(i - 1) % m.size][j] +
    S[i][(j + 1) % m.size] + S[i][(j - 1) % m.size]

\* calc_energy_change(i, j) on the grid S
calc_energy_change(m, S, i, j) ==
    2 * m.J * S[i][j] * neighbors(m, S, i, j) + 2 * m.h * S[i][j]

\* The energy simulate and animate record:
\* -J * sum(spins * roll(spins, 1, 0) + spins * roll(spins, 1, 1)) - h * sum(spins)
total_energy(m, S) ==
    (0 - m.J) * bond_sum(S, m.size, m.size * m.size)
    - m.h * spin_sum(S, m.size, m.size * m.size)

\* np.sum(spins) / size**2
total_magnetization(m, S) == <<spin_sum(S, m.size, m.size * m.size), m.size * m.size>>

\* Mutant: the flip of a 0/1 representation, spins[i, j] = 1 - spins[i, j].
flip_zero_one(S, i, j) == [S EXCEPT ![i][j] = 1 - @]

\* spins[i, j] *= -1
flip(S, i, j) == [S EXCEPT ![i][j] = (0 - 1) * @]

\* np.exp(-delta_E / (temperature * kB)), for delta_E > 0, in units of 1 / DrawLevels:
\* 2^(-delta_E / temperature) with the exponent rounded up and the result rounded
\* down, so below 1 and 0 once it underflows; exp(-inf) = 0 at temperature 0; and at
\* least 1 (the exponent is positive) below temperature 0.
boltzmann(m, delta_E) ==
    IF m.temperature = 0 THEN 0
    ELSE IF m.temperature < 0
         THEN DrawLevels * 2 ^ (delta_E \div (0 - m.temperature))
         ELSE DrawLevels \div 2 ^ ((delta_E + m.temperature - 1) \div m.temperature)

\* Mutant: the draw compared with <= instead of <.
accepts_or_equal(m, S, i, j, u) ==
    LET delta_E == calc_energy_change(m, S, i, j)
    IN  delta_E <= 0 \/ u <= boltzmann(m, delta_E)

\* The Metropolis criterion of line 44 for site (i, j) and uniform draw u.
accepts(m, S, i, j, u) ==
    LET delta_E == calc_energy_change(m, S, i, j)
    IN  delta_E <= 0 \/ u < boltzmann(m, delta_E)

\* The grid after one metropolis_step that drew site (d.i, d.j) and uniform d.u.
metropolis_flip(m, S, d) ==
    IF accepts(m, S, d.i, d.j, d.u) THEN flip(S, d.i, d.j) ELSE S

\* What one metropolis_step draws: np.random.randint(0, size, size=2), np.random.rand()
Draws(N) == [i : Index(N), j : Index(N), u : Index(DrawLevels)]

\* The draws of one call, as a stream of period RngPeriod (none on an empty lattice,
\* where randint raises before drawing).
Streams(N) == IF N <= 0 THEN {<<>>} ELSE [1..RngPeriod -> Draws(N)]

\* The draw of the k-th metropolis_step (k = 0, 1, ...) of a call.
DrawAt(stream, k) == stream[(k % RngPeriod) + 1]

----------------------------------------------------------------------------
(* History *)

NoCall(op, outcome) ==
    [op |-> op, steps |-> 0, outcome |-> outcome, cached |-> FALSE, nsteps |-> 0,
     ret |-> <<>>, updates |-> <<>>]

----------------------------------------------------------------------------
(* Construction, reset, one step *)

\* IsingModelClass(size_, temperature_, J_, h_)
IsingModelClass_init(size_, temperature_, J_, h_) ==
    /\ inst = "none"
    /\ size' = size_
    /\ temperature' = temperature_
    /\ J' = J_
    /\ h' = h_
    /\ \/ /\ size_ < 0          \* np.random.choice: negative dimensions are not allowed
          /\ inst' = "failed"
          /\ spins' = spins
          /\ last' = NoCall("__init__", "ValueError")
       \/ /\ size_ >= 0
          /\ inst' = "live"
          /\ spins' \in random_spins(size_)
          /\ last' = NoCall("__init__", "ok")
    /\ UNCHANGED <<has_energies, has_magnetizations, energies, magnetizations,
                   fst_frame, frames, recorded>>

\* reset_model()
reset_model ==
    /\ inst = "live"
    /\ spins' \in random_spins(size)
    /\ has_magnetizations' = FALSE      \* delattr(self, "magnetizations") when present
    /\ magnetizations' = <<>>
    /\ last' = NoCall("reset_model", "ok")
    /\ UNCHANGED <<params, has_energies, energies, fst_frame, frames, recorded>>

\* metropolis_step()
metropolis_step ==
    /\ inst = "live"
    /\ \/ /\ size = 0           \* np.random.randint(0, 0): low >= high
          /\ spins' = spins
          /\ last' = NoCall("metropolis_step", "ValueError")
       \/ /\ size > 0
          /\ \E d \in Draws(size) : spins' = metropolis_flip(self, spins, d)
          /\ last' = [NoCall("metropolis_step", "ok") EXCEPT !.nsteps = 1]
    /\ UNCHANGED <<params, has_energies, has_magnetizations, energies, magnetizations,
                   fst_frame, frames, recorded>>

----------------------------------------------------------------------------
(* Simulation driver: simulate *)

\* Mutant: the test of an attribute that is never set.
trajectory_never_exists == FALSE

\* hasattr(self, "magnetizations"), the test of simulate
trajectory_exists == has_magnetizations

\* `step % (steps // 10)`: the divisor of the progress report
progress_divisor(steps) == steps \div PROGRESS_PARTS

RECURSIVE simulate_loop(_, _, _, _, _)
\* `for step in range(steps)` from iteration `step` on; st is the run so far.  (Each
\* iteration's result is bound as a value, so that it is computed once.)
simulate_loop(m, st, steps, step, stream) ==
    IF step >= steps THEN [st EXCEPT !.outcome = "ok"]
    ELSE IF m.size = 0 THEN [st EXCEPT !.outcome = "ValueError"]  \* metropolis_step raises
    ELSE
        CHOOSE r \in
            { IF progress_divisor(steps) = 0
              THEN [st2 EXCEPT !.outcome = "ZeroDivisionError"]     \* step % 0
              ELSE simulate_loop(m, st2, steps, step + 1, stream) :
                st2 \in { [st EXCEPT !.spins = S2,
                                     !.energies[step + 1] = total_energy(m, S2),
                                     !.magnetizations[step + 1] =
                                         total_magnetization(m, S2),
                                     !.nsteps = @ + 1,
                                     !.recorded = @ \cup {step}] :
                            S2 \in { metropolis_flip(m, st.spins,
                                                     DrawAt(stream, st.nsteps)) } } } : TRUE

\* The fresh run of simulate(steps), steps >= 0, on grid S: lines 49-62.
simulate_run(m, S, steps, stream) ==
    simulate_loop(m, [spins |-> S, energies |-> zeros(steps),
                      magnetizations |-> zeros_mag(steps), nsteps |-> 0,
                      recorded |-> {}, outcome |-> "running"],
                  steps, 0, stream)

\* simulate(steps)
simulate(steps) ==
    /\ inst = "live"
    /\ \/ /\ trajectory_exists          \* return self.energies, self.magnetizations
          /\ last' = [op |-> "simulate", steps |-> steps, outcome |-> "ok",
                      cached |-> TRUE, nsteps |-> 0,
                      ret |-> <<energies, magnetizations>>, updates |-> <<>>]
          /\ UNCHANGED <<spins, has_energies, has_magnetizations, energies,
                         magnetizations, recorded>>
       \/ /\ ~trajectory_exists
          /\ steps < 0                  \* np.zeros(steps): negative dimensions
          /\ last' = [op |-> "simulate", steps |-> steps, outcome |-> "ValueError",
                      cached |-> FALSE, nsteps |-> 0, ret |-> <<>>, updates |-> <<>>]
          /\ UNCHANGED <<spins, has_energies, has_magnetizations, energies,
                         magnetizations, recorded>>
       \/ /\ ~trajectory_exists
          /\ steps >= 0
          /\ \E stream \in Streams(size) :
               \E run \in { simulate_run(self, spins, steps, stream) } :
                   /\ spins' = run.spins
                   /\ energies' = run.energies
                   /\ magnetizations' = run.magnetizations
                   /\ recorded' = run.recorded
                   /\ last' = [op |-> "simulate", steps |-> steps,
                               outcome |-> run.outcome, cached |-> FALSE,
                               nsteps |-> run.nsteps,
                               ret |-> IF run.outcome = "ok"
                                       THEN <<run.energies, run.magnetizations>>
                                       ELSE <<>>,
                               updates |-> <<>>]
          /\ has_energies' = TRUE
          /\ has_magnetizations' = TRUE
    /\ UNCHANGED <<params, fst_frame, frames>>

----------------------------------------------------------------------------
(* Simulation driver: animate *)

\* self.frames after lines 68-70: the assignment of line 70 follows that of line 69.
animate_frames(steps) == FRAMES

\* len(range(n))
range_len(n) == IF n > 0 THEN n ELSE 0

\* Mutant: the quotient rounded up.
steps_per_frame_ceil(steps, nframes) == range_len((steps + nframes - 1) \div nframes)

\* The Metropolis steps of one frame update after the first: range(steps // self.frames)
steps_per_frame(steps, nframes) == range_len(steps \div nframes)

\* The frame numbers FuncAnimation hands to update while anim.save runs: 0 .. n-1 in
\* order, after the initial draw of frame 0 when the library makes one.
frame_calls(n, init_draw) ==
    (IF init_draw THEN <<0>> ELSE <<>>) \o [k \in 1..n |-> k - 1]

RECURSIVE run_steps(_, _, _, _, _)
\* n metropolis_step calls on S, with the call's k-th, k+1-th, ... draws
run_steps(m, S, stream, k, n) ==
    IF n <= 0 THEN S
    ELSE run_steps(m, metropolis_flip(m, S, DrawAt(stream, k)), stream, k + 1, n - 1)

\* update(frame), the callback of animate
update(m, st, steps, frame, stream) ==
    LET n == IF st.fst_frame THEN 0 ELSE steps_per_frame(steps, st.frames)
    IN  IF n > 0 /\ m.size = 0
        THEN [st EXCEPT !.fst_frame = FALSE,
                        !.outcome = "ValueError"]       \* metropolis_step raises
        ELSE
            CHOOSE r \in
                { [st EXCEPT !.fst_frame = FALSE,
                             !.spins = S2,
                             !.energies[frame + 1] = total_energy(m, S2),
                             !.magnetizations[frame + 1] = total_magnetization(m, S2),
                             !.nsteps = @ + n,
                             !.recorded = @ \cup {frame},
                             !.updates = Append(@, [frame |-> frame, nsteps |-> n,
                                                    image |-> S2])] :
                    S2 \in { run_steps(m, st.spins, stream, st.nsteps, n) } } : TRUE

RECURSIVE animation_save(_, _, _, _, _, _, _)
\* anim.save: update on calls[lo], ..., calls[hi] in order; an exception of update
\* ends the run.  (The range is halved and each half's result is bound as a value, so
\* that the evaluation stays shallow and every update is computed once.)
animation_save(m, st, steps, calls, lo, hi, stream) ==
    IF lo > hi \/ st.outcome # "running" THEN st
    ELSE IF lo = hi THEN update(m, st, steps, calls[lo], stream)
    ELSE
        LET mid == (lo + hi) \div 2
        IN  CHOOSE r \in
                { animation_save(m, st2, steps, calls, mid + 1, hi, stream) :
                    st2 \in { animation_save(m, st, steps, calls, lo, mid, stream) } } :
                TRUE

\* animate(steps) on grid S: lines 67-70 and 81-105.
animate_run(m, S, steps, stream, init_draw) ==
    CHOOSE r \in
        { animation_save(m, st0, steps, calls, 1, Len(calls), stream) :
            st0 \in { [spins |-> S, energies |-> zeros(animate_frames(steps)),
                       magnetizations |-> zeros_mag(animate_frames(steps)),
                       fst_frame |-> TRUE, frames |-> animate_frames(steps),
                       nsteps |-> 0, recorded |-> {}, updates |-> <<>>,
                       outcome |-> "running"] },
            calls \in { frame_calls(animate_frames(steps), init_draw) } } : TRUE

\* The instances Spec constructs and the calls it makes on them.
AnimateKeys ==
    UNION { { <<m, S, steps, stream, init_draw>> :
                S \in random_spins(m.size), steps \in AnimateArgs,
                stream \in Streams(m.size), init_draw \in BOOLEAN } :
            m \in [size : 0..MaxSize, temperature : TemperatureArgs,
                   J : JArgs, h : hArgs] }

\* animate_run on each of them, computed once.
animate_table == [k \in AnimateKeys |-> animate_run(k[1], k[2], k[3], k[4], k[5])]

\* animate(steps)
animate(steps) ==
    /\ inst = "live"
    /\ \E stream \in Streams(size), init_draw \in BOOLEAN :
         \E run \in { animate_table[<<self, spins, steps, stream, init_draw>>] } :
             /\ spins' = run.spins
             /\ energies' = run.energies
             /\ magnetizations' = run.magnetizations
             /\ fst_frame' = run.fst_frame
             /\ frames' = run.frames
             /\ recorded' = run.recorded
             /\ last' = [op |-> "animate", steps |-> steps,
                         outcome |-> IF run.outcome = "running" THEN "ok"
                                     ELSE run.outcome,
                         cached |-> FALSE, nsteps |-> run.nsteps, ret |-> <<>>,
                         updates |-> run.updates]
    /\ has_energies' = TRUE
    /\ has_magnetizations' = TRUE
    /\ UNCHANGED params

----------------------------------------------------------------------------
(* Specifications *)

Init ==
    /\ inst = "none"
    /\ size = 0
    /\ temperature = 0
    /\ J = 0
    /\ h = 0
    /\ spins = <<>>
    /\ has_energies = FALSE
    /\ has_magnetizations = FALSE
    /\ energies = <<>>
    /\ magnetizations = <<>>
    /\ fst_frame = FALSE
    /\ frames = 0
    /\ recorded = {}
    /\ last = NoCall("none", "ok")

Next ==
    \/ \E s \in SizeArgs, t \in TemperatureArgs, j \in JArgs, f \in hArgs :
           IsingModelClass_init(s, t, j, f)
    \/ reset_model
    \/ metropolis_step
    \/ \E steps \in SimulateArgs : simulate(steps)
    \/ \E steps \in AnimateArgs : animate(steps)

\* The whole class: construction, then any sequence of calls.
Spec == Init /\ [][Next]_vars

\* A constructed instance of any side up to MaxSide, no trajectory recorded.
InitPhysics ==
    /\ inst = "live"
    /\ size \in 0..MaxSide
    /\ temperature \in PhysTemperature
    /\ J \in PhysJ
    /\ h \in PhysH
    /\ spins \in random_spins(size)
    /\ has_energies = FALSE
    /\ has_magnetizations = FALSE
    /\ energies = <<>>
    /\ magnetizations = <<>>
    /\ fst_frame = FALSE
    /\ frames = 0
    /\ recorded = {}
    /\ last = NoCall("__init__", "ok")

NextPhysics == metropolis_step

\* The lattice and its Metropolis dynamics alone.
SpecPhysics == InitPhysics /\ [][NextPhysics]_vars

----------------------------------------------------------------------------
(* Properties *)

\* An instance as the data model describes it: side >= 1, temperature > 0.
ValidInstance == inst = "live" /\ size >= 1 /\ temperature > 0

\* C1: on an instance of side N >= 1, after any sequence of metropolis_step, simulate,
\* animate and reset_model calls, the grid is N x N and every cell holds -1 or +1.
C1_SpinDomain ==
    (inst = "live" /\ size >= 1) =>
        /\ DOMAIN spins = 0..(size - 1)
        /\ \A i \in 0..(size - 1) :
             /\ DOMAIN spins[i] = 0..(size - 1)
             /\ \A j \in 0..(size - 1) : spins[i][j] = 1 \/ spins[i][j] = 0 - 1

\* C1's case: a completed simulate run whose Metropolis steps flipped spins.
C1_Witness ==
    /\ inst = "live"
    /\ size >= 1
    /\ last.op = "simulate"
    /\ last.outcome = "ok"
    /\ last.nsteps = 10
    /\ \E k \in 1..Len(magnetizations) : magnetizations[k] # magnetizations[1]

\* C2: with no trajectory on the instance, simulate(steps) for every steps >= 1 runs to
\* completion: exactly `steps` Metropolis steps, a record after each at that step's
\* index, and two returned sequences of length `steps`.
C2_SimulateCompletes ==
    (ValidInstance /\ last.op = "simulate" /\ ~last.cached /\ last.steps >= 1) =>
        /\ last.outcome = "ok"
        /\ last.nsteps = last.steps
        /\ recorded = 0..(last.steps - 1)
        /\ Len(last.ret) = 2
        /\ Len(last.ret[1]) = last.steps
        /\ Len(last.ret[2]) = last.steps

\* C3: when a trajectory exists, simulate(steps), for any steps, performs no Metropolis
\* step, leaves the grid and both sequences unchanged, and returns the cached pair.
C3_Memoized ==
    [][(inst = "live" /\ has_magnetizations /\ last'.op = "simulate") =>
          /\ last'.outcome = "ok"
          /\ last'.cached
          /\ last'.nsteps = 0
          /\ spins' = spins
          /\ energies' = energies
          /\ magnetizations' = magnetizations
          /\ has_energies' /\ has_magnetizations'
          /\ last'.ret = <<energies, magnetizations>>]_vars

\* C3's case: simulate(-1) answered with the 150 samples animate had recorded.
C3_Witness ==
    /\ last.op = "simulate"
    /\ last.cached
    /\ last.steps = 0 - 1
    /\ Len(last.ret[1]) = 150
    /\ last.ret = <<energies, magnetizations>>

\* C4: the simulate(steps) call that follows reset_model() performs a new run and
\* returns the newly recorded sequences (never those cached before the reset).
C4_FreshAfterReset ==
    [][(ValidInstance /\ last.op = "reset_model" /\ last'.op = "simulate"
            /\ last'.steps >= 1) =>
          /\ last'.outcome = "ok"
          /\ ~last'.cached
          /\ last'.nsteps = last'.steps
          /\ recorded' = 0..(last'.steps - 1)
          /\ last'.ret = <<energies', magnetizations'>>]_vars

\* The energy of the grid with site (i, j) flipped, minus the energy of the grid.
EnergyDifference(i, j) ==
    total_energy(self, [spins EXCEPT ![i][j] = 0 - spins[i][j]]) - total_energy(self, spins)

\* C5 as stated: for every side N >= 1, every grid, site, J and h,
\* calc_energy_change(i, j) is the energy of the grid with (i, j) flipped minus the
\* energy of the grid.
C5_EnergyChange_AllSides ==
    (inst = "live" /\ size >= 1) =>
        \A i \in 0..(size - 1), j \in 0..(size - 1) :
            calc_energy_change(self, spins, i, j) = EnergyDifference(i, j)

\* C5 as amended: the same for every side N >= 2.
C5_EnergyChange ==
    (inst = "live" /\ size >= 2) =>
        \A i \in 0..(size - 1), j \in 0..(size - 1) :
            calc_energy_change(self, spins, i, j) = EnergyDifference(i, j)

\* C5's case: a 3 x 3 grid, coupled and in a field, that Metropolis steps have acted
\* on, with a site whose flip costs energy and a site whose flip releases it.
C5_Witness ==
    /\ inst = "live"
    /\ size = 3
    /\ J # 0
    /\ h # 0
    /\ last.op = "metropolis_step"
    /\ \E i \in 0..2, j \in 0..2 : calc_energy_change(self, spins, i, j) > 0
    /\ \E i \in 0..2, j \in 0..2 : calc_energy_change(self, spins, i, j) < 0

\* What C6 says of the step that draws site (d.i, d.j) and uniform d.u on the grid S,
\* S2 being the grid after it.
AsMetropolis(S, d, S2) ==
    LET dE == calc_energy_change(self, S, d.i, d.j)
        flipped == S2[d.i][d.j] = 0 - S[d.i][d.j]
    IN  /\ d.i \in 0..(size - 1) /\ d.j \in 0..(size - 1)
        /\ dE <= 0 => flipped
        /\ (dE > 0 /\ d.u < boltzmann(self, dE)) => flipped
        /\ (dE > 0 /\ ~(d.u < boltzmann(self, dE))) => S2 = S
        /\ \A i \in 0..(size - 1), j \in 0..(size - 1) :
             <<i, j>> # <<d.i, d.j>> => S2[i][j] = S[i][j]

\* C6: one metropolis_step picks one site (i, j), 0 <= i, j < N; flips it whatever the
\* uniform draw when the energy change is <= 0; when it is > 0, flips it only if the
\* draw is below exp(-dE / (kB * T)) and otherwise leaves the lattice as it was; and
\* changes no other cell, nor the trajectory, nor the parameters.
C6_Acceptance ==
    /\ []((inst = "live" /\ size >= 1) =>
            \A d \in Draws(size) : AsMetropolis(spins, d, metropolis_flip(self, spins, d)))
    /\ [][(inst = "live" /\ size >= 1 /\ last'.op = "metropolis_step") =>
            /\ \E d \in Draws(size) : AsMetropolis(spins, d, spins')
            /\ UNCHANGED <<params, has_energies, has_magnetizations, energies,
                           magnetizations, fst_frame, frames>>]_vars

\* C6's case: after a step, a grid with a site whose flip costs energy, which one draw
\* accepts and another rejects, and a site whose flip is free.
C6_Witness ==
    /\ inst = "live"
    /\ size >= 2
    /\ temperature > 0
    /\ last.op = "metropolis_step"
    /\ \E d, e \in Draws(size) :
         /\ d.i = e.i /\ d.j = e.j
         /\ calc_energy_change(self, spins, d.i, d.j) > 0
         /\ accepts(self, spins, d.i, d.j, d.u)
         /\ ~accepts(self, spins, e.i, e.j, e.u)
    /\ \E d \in Draws(size) : calc_energy_change(self, spins, d.i, d.j) <= 0

\* C7: simulate(steps) with steps <= 0 fails with an error: it returns no trajectory
\* and leaves none cached.
C7_FailFast ==
    (ValidInstance /\ last.op = "simulate" /\ ~last.cached /\ last.steps <= 0) =>
        /\ last.outcome # "ok"
        /\ ~has_magnetizations

\* C8: construction with size <= 0 or temperature <= 0 is rejected and creates no
\* instance.
C8_ConstructionRejects ==
    (inst # "none" /\ (size <= 0 \/ temperature <= 0)) => inst = "failed"

\* What C9 says of the animate call just made, every frame update after the first
\* performing per_frame Metropolis steps.
C9_AnimateWith(per_frame) ==
    (inst = "live" /\ size >= 1 /\ last.op = "animate") =>
        LET ups == last.updates
            off == Len(ups) - 150
        IN  /\ last.outcome = "ok"
            /\ has_energies /\ has_magnetizations
            /\ Len(energies) = 150 /\ Len(magnetizations) = 150
            /\ recorded = 0..149
            /\ off \in {0, 1}
            /\ ups[1].frame = 0
            /\ ups[1].nsteps = 0
            /\ \A k \in 2..Len(ups) : ups[k].nsteps = per_frame
            /\ last.nsteps = (Len(ups) - 1) * per_frame
            /\ ups[Len(ups)].image = spins
            /\ \A f \in 0..149 :
                 /\ ups[off + f + 1].frame = f
                 /\ energies[f + 1] = total_energy(self, ups[off + f + 1].image)
                 /\ magnetizations[f + 1] =
                        total_magnetization(self, ups[off + f + 1].image)

C10_CachedIsComplete ==
    (ValidInstance /\ has_magnetizations) =>
        /\ Len(energies) = Len(magnetizations)
        /\ recorded = 0..(Len(magnetizations) - 1)

====
